---- MODULE Spec2Model ----
(***************************************************************************)
(* manca.cluster_graph (src/manca/manca.py, lines 101-216): the            *)
(* diffusion-and-convergence loop of the microbial association network     *)
(* clustering algorithm.                                                   *)
(*                                                                         *)
(* One step of the model is one evaluation of the while condition of line  *)
(* 127 followed either by one whole loop body (lines 128-208) or by the    *)
(* code after the loop (lines 209-216).  KMeans and silhouette_score are   *)
(* library calls: they are modelled as nondeterministic oracles that obey  *)
(* the library's documented failure rule (silhouette_score raises          *)
(* ValueError unless 2 <= number of labels <= number of samples - 1).      *)
(* Their results do not depend on adj in the model: every label vector    *)
(* and every score the library could return is allowed in every round.     *)
(* The runs have at least one node and max_clusters <= number of nodes     *)
(* (choice and KMeans raise otherwise, before the loop body does anything  *)
(* of its own).  Edge weights and scores are small integers; on these the  *)
(* float arithmetic of the code is exact.                                  *)
(*                                                                         *)
(* Spec runs cluster_graph on three-node graphs; SpecTriangles runs it on  *)
(* the two-triangle scenario of the documentation; SpecLong runs it long   *)
(* enough for iters to reach the literal of line 209; SpecSelect applies   *)
(* the cluster selection of lines 157-178 to every score vector.           *)
(***************************************************************************)
EXTENDS Integers, Sequences, FiniteSets, TLC

----------------------------------------------------------------------------
(* Bounds of the model. *)

MaxLimit == 2
MaxIterations == 2
MaxBaselineWins == 1

(* The values of diff_range and max_clusters of the runs. *)
DiffRanges == {1, 2}
ClusterCounts == {1, 2}

(* The literal of line 209. *)
WarnIters == 1000

----------------------------------------------------------------------------
(* The graph: list(graph.nodes) and the edge data. *)

(* A graph g is [nodes |-> list(graph.nodes), e |-> the data of every node *)
(* pair]; the data is symmetric, the graph being undirected.               *)
NodesOf(g) == {g.nodes[i] : i \in 1..Len(g.nodes)}
IdxOf(g) == 0..(Len(g.nodes) - 1)

(* adj_index (lines 121-123) and rev_index (line 124). *)
adj_index(g) ==
  [n \in NodesOf(g) |-> CHOOSE i \in IdxOf(g) : g.nodes[i + 1] = n]
rev_index(g) == [i \in IdxOf(g) |-> g.nodes[i + 1]]

(* The data of one node pair: no edge, an edge without the 'weight'        *)
(* attribute, or an edge with a weight.                                    *)
NoEdge == [edge |-> FALSE, attr |-> FALSE, weight |-> 0]
NoWeight == [edge |-> TRUE, attr |-> FALSE, weight |-> 0]
Weighted(x) == [edge |-> TRUE, attr |-> TRUE, weight |-> x]

(* The graphs of the runs: three nodes, the pairs a-b, b-c, a-c and the    *)
(* self-loop a-a.                                                          *)
NodeSeq == <<"a", "b", "c">>

MkGraph(ab, bc, ac, aa) ==
  [nodes |-> NodeSeq,
   e |-> [p \in {NodeSeq[i] : i \in 1..Len(NodeSeq)}
                  \X {NodeSeq[i] : i \in 1..Len(NodeSeq)} |->
            CASE p \in {<<"a", "b">>, <<"b", "a">>} -> ab
              [] p \in {<<"b", "c">>, <<"c", "b">>} -> bc
              [] p \in {<<"a", "c">>, <<"c", "a">>} -> ac
              [] p = <<"a", "a">> -> aa
              [] OTHER -> NoEdge]]

(* A path with positive weights; a triangle with a negative, a zero and a  *)
(* positive weight; a path with an edge that has no 'weight'; a path with  *)
(* a negative weight and a self-loop.                                      *)
PathGraph == MkGraph(Weighted(1), Weighted(2), NoEdge, NoEdge)

Graphs ==
  {PathGraph,
   MkGraph(Weighted(0 - 1), Weighted(0), Weighted(1), NoEdge),
   MkGraph(NoWeight, Weighted(2), NoEdge, NoEdge),
   MkGraph(Weighted(1), Weighted(0 - 1), NoEdge, Weighted(1))}

(* The graph of the documented scenario: two triangles a-b-c and d-e-f of  *)
(* weight 1, joined by the single edge c-d.                                *)
TriangleSeq == <<"a", "b", "c", "d", "e", "f">>

TwoTriangles(bridge) ==
  [nodes |-> TriangleSeq,
   e |-> [p \in {TriangleSeq[i] : i \in 1..Len(TriangleSeq)}
                  \X {TriangleSeq[i] : i \in 1..Len(TriangleSeq)} |->
            CASE {p[1], p[2]} \in {{"a", "b"}, {"b", "c"}, {"a", "c"},
                                   {"d", "e"}, {"e", "f"}, {"d", "f"}}
                   -> Weighted(1)
              [] {p[1], p[2]} = {"c", "d"} -> bridge
              [] OTHER -> NoEdge]]

(* The scenario and its variant with a negative connecting edge. *)
TriangleGraphs == {TwoTriangles(Weighted(1)), TwoTriangles(Weighted(0 - 1))}

(* graph.neighbors(n). *)
Neighbors(g, n) == {m \in NodesOf(g) : g.e[<<n, m>>].edge}

(* Lines 142-147: graph.get_edge_data(nb, new_nb)['weight'], 1.0 on KeyError. *)
DiffusionWeight(g, nb, new_nb) ==
  IF g.e[<<nb, new_nb>>].attr THEN g.e[<<nb, new_nb>>].weight ELSE 1

NonNegative(g) ==
  \A p \in NodesOf(g) \X NodesOf(g) : g.e[p].attr => g.e[p].weight >= 0

----------------------------------------------------------------------------
(* Diffusion (lines 128-152). *)

(* Line 120. *)
ZeroAdj(g) == [i \in IdxOf(g) |-> [j \in IdxOf(g) |-> 0]]

(* AddBoth without line 150: a one-sided accumulation. *)
AddBothOneSide(a, g, seed, new_nb, x) ==
  [a EXCEPT ![adj_index(g)[seed]][adj_index(g)[new_nb]] = @ + x]

(* AddBoth with the second += of line 150 made on the diagonal entry of    *)
(* the neighbour.                                                          *)
AddBothDiagonal(a, g, seed, new_nb, x) ==
  LET s == adj_index(g)[seed]
      t == adj_index(g)[new_nb]
      a1 == [a EXCEPT ![s][t] = @ + x]
  IN [a1 EXCEPT ![t][t] = @ + x]

(* Lines 149-150: the two += of one propagated value. *)
AddBoth(a, g, seed, new_nb, x) ==
  LET s == adj_index(g)[seed]
      t == adj_index(g)[new_nb]
      a1 == [a EXCEPT ![s][t] = @ + x]
  IN [a1 EXCEPT ![t][s] = @ + x]

(* Spread with the magnitude of the frontier entry dropped: every entry    *)
(* carries the weight of its last edge only.                               *)
RECURSIVE SpreadLastEdge(_, _, _, _)
SpreadLastEdge(g, nb, mag, i) ==
  IF i > Len(g.nodes) THEN <<>>
  ELSE LET new_nb == g.nodes[i]
       IN (IF g.e[<<nb, new_nb>>].edge
           THEN <<[node |-> new_nb, mag |-> DiffusionWeight(g, nb, new_nb)]>>
           ELSE <<>>) \o SpreadLastEdge(g, nb, mag, i + 1)

(* The entries next_diff that one frontier entry <<nb, mag>> produces      *)
(* (lines 139-151), one per neighbour, in the order of g.nodes.            *)
RECURSIVE Spread(_, _, _, _)
Spread(g, nb, mag, i) ==
  IF i > Len(g.nodes) THEN <<>>
  ELSE LET new_nb == g.nodes[i]
       IN (IF g.e[<<nb, new_nb>>].edge
           THEN <<[node |-> new_nb, mag |-> DiffusionWeight(g, nb, new_nb) * mag]>>
           ELSE <<>>) \o Spread(g, nb, mag, i + 1)

(* new_upper of one hop (lines 136-152). *)
RECURSIVE NewUpper(_, _)
NewUpper(g, upper_diff) ==
  IF upper_diff = <<>> THEN <<>>
  ELSE Spread(g, Head(upper_diff).node, Head(upper_diff).mag, 1)
       \o NewUpper(g, Tail(upper_diff))

(* upper_diff after h iterations of the loop of line 134 (line 130 for     *)
(* h = 0, line 152 after every hop).                                       *)
RECURSIVE UpperDiff(_, _, _)
UpperDiff(g, seed, h) ==
  IF h = 0 THEN <<[node |-> seed, mag |-> 1]>>
  ELSE NewUpper(g, UpperDiff(g, seed, h - 1))

(* The additions to adj of the entries of one hop. *)
RECURSIVE Accumulate(_, _, _, _)
Accumulate(a, g, seed, entries) ==
  IF entries = <<>> THEN a
  ELSE Accumulate(AddBoth(a, g, seed, Head(entries).node, Head(entries).mag),
                  g, seed, Tail(entries))

(* The iterations h..diff_range of the loop of line 134, entered with adj  *)
(* = a and the frontier upper_diff.                                        *)
RECURSIVE Hops(_, _, _, _, _)
Hops(a, g, seed, upper_diff, h) ==
  IF h = 0 THEN a
  ELSE LET new_upper == NewUpper(g, upper_diff)
       IN Hops(Accumulate(a, g, seed, new_upper), g, seed, new_upper, h - 1)

(* Diffuse on a matrix rebuilt from zero in every round (line 120 moved    *)
(* into the loop).                                                         *)
DiffuseFresh(a, g, seed, range) ==
  Hops(ZeroAdj(g), g, seed, <<[node |-> seed, mag |-> 1]>>, range)

(* adj after the diffusion of one round from seed (lines 130-152). *)
Diffuse(a, g, seed, range) ==
  Hops(a, g, seed, <<[node |-> seed, mag |-> 1]>>, range)

----------------------------------------------------------------------------
(* Cluster selection (lines 157-180). *)

(* Silhouette scores, scaled to integers. *)
Scores == {0 - 1, 0, 1}

(* The label vectors KMeans(k).fit_predict can return for n samples. *)
Labelings(n, k) == [0..(n - 1) -> 0..(k - 1)]

NLabels(l) == Cardinality({l[i] : i \in DOMAIN l})

(* silhouette_score(adj, l) with the except ValueError of lines 160-163    *)
(* and 172-176: s when the scorer accepts l, 0 when it raises.             *)
ScoreOrZero(n, l, s) == IF NLabels(l) \in 2..(n - 1) THEN s ELSE 0

(* Lines 159-163: the scores the random binary labelling can get. *)
BaselineScores(n) == {ScoreOrZero(n, l, s) : l \in Labelings(n, 2), s \in Scores}

(* Lines 171-176: the scores the k-means clustering into i clusters can get. *)
CandidateScores(n, i) ==
  {ScoreOrZero(n, l, s) : l \in Labelings(n, i), s \in Scores}

(* sh_score after line 177, for n nodes and max_clusters = mc. *)
ShScores(n, mc) ==
  LET base == BaselineScores(n)
      cand == [i \in 1..mc |-> CandidateScores(n, i)]
  IN {v \in [0..mc -> Scores] :
        /\ v[0] \in base
        /\ \A i \in 1..mc : v[i] \in cand[i]}

(* The scan of np.argmax from index i on, best being the index kept so    *)
(* far: a later element replaces it only when it is strictly greater.      *)
RECURSIVE ArgMaxFrom(_, _, _)
ArgMaxFrom(v, i, best) ==
  IF i \notin DOMAIN v THEN best
  ELSE ArgMaxFrom(v, i + 1, IF v[i] > v[best] THEN i ELSE best)

(* ArgMax with the kept index replaced on an equal element too. *)
ArgMaxLast(v) ==
  LET top == CHOOSE i \in DOMAIN v : \A j \in DOMAIN v : v[j] <= v[i]
  IN CHOOSE i \in DOMAIN v :
       v[i] = v[top] /\ \A j \in DOMAIN v : v[j] = v[top] => j <= i

(* np.argmax (line 178) of the list sh_score, indexed from 0. *)
ArgMax(v) == ArgMaxFrom(v, 1, 0)

(* The values topscore can take at line 178. *)
TopScores(n, mc) == {ArgMax(v) : v \in ShScores(n, mc)}

(* TopScores, tabulated for the graphs and cluster counts of the runs. *)
RECURSIVE TabulateTopScores(_)
TabulateTopScores(D) ==
  IF D = {} THEN <<>>
  ELSE LET p == CHOOSE x \in D : TRUE
       IN (p :> TopScores(p[1], p[2])) @@ TabulateTopScores(D \ {p})

TopScoreTable ==
  TabulateTopScores({Len(g.nodes) : g \in Graphs \cup TriangleGraphs}
                      \X ClusterCounts)

(* The values of the local bestcluster: not yet assigned, None, or a label *)
(* vector.                                                                 *)
Unbound == [kind |-> "unbound", labels |-> <<>>]
None == [kind |-> "none", labels |-> <<>>]
Labels(l) == [kind |-> "labels", labels |-> l]

(* BestAfterSelection with the held value kept on a baseline win: the     *)
(* retention policy, which lines 158-180 do not implement.                 *)
BestAfterSelectionKeeps(held, k, l) == IF k = 0 THEN held ELSE Labels(l)

(* bestcluster after lines 158-180 of a round entered with bestcluster =   *)
(* held, in which topscore = k and, for k # 0, KMeans(k) returns l: line   *)
(* 158 sets it to None in every round, line 180 overwrites it when k # 0.  *)
BestAfterSelection(held, k, l) == IF k = 0 THEN None ELSE Labels(l)

----------------------------------------------------------------------------
(* Sparsity of the cut (lines 183-201). *)

(* set(bestcluster), line 184. *)
ClusterIds(l) == {l[i] : i \in DOMAIN l}

(* node_ids of lines 185-186. *)
NodeIds(g, l, cluster_id) ==
  {rev_index(g)[i] : i \in {j \in DOMAIN l : l[j] = cluster_id}}

(* CutVisits without the test of line 194: every neighbour is visited. *)
CutVisitsAll(g, l) ==
  UNION {LET node_ids == NodeIds(g, l, cluster_id)
         IN {v \in node_ids \X NodesOf(g) : g.e[v].edge} :
           cluster_id \in ClusterIds(l)}

(* CutVisits with every cut edge visited from one endpoint only. *)
CutVisitsOnce(g, l) ==
  UNION {LET node_ids == NodeIds(g, l, cluster_id)
         IN {v \in node_ids \X NodesOf(g) :
               /\ g.e[v].edge
               /\ v[2] \notin node_ids
               /\ adj_index(g)[v[1]] < adj_index(g)[v[2]]} :
           cluster_id \in ClusterIds(l)}

(* The executions of line 197: per cluster_id (line 184), the pairs        *)
(* <<node, nb>> with node in node_ids (line 191), nb a neighbour of node   *)
(* (lines 192-193) and nb not in node_ids (line 194).                      *)
CutVisits(g, l) ==
  UNION {LET node_ids == NodeIds(g, l, cluster_id)
         IN {v \in node_ids \X NodesOf(g) :
               g.e[v].edge /\ v[2] \notin node_ids} :
           cluster_id \in ClusterIds(l)}

(* Line 197 raises KeyError on an edge without 'weight'. *)
SparsityRaises(g, l) == \E v \in CutVisits(g, l) : ~g.e[v].attr

(* Sparsity with a zero weight counted as positive (>= at line 198). *)
SparsityZeroPositive(g, l) ==
  LET visits == CutVisits(g, l)
      positive == {v \in visits : g.e[v].weight >= 0}
  IN Cardinality(positive) - Cardinality(visits \ positive)

(* Lines 183, 198-201: +1 per visit of a positive edge, -1 per other visit. *)
Sparsity(g, l) ==
  LET visits == CutVisits(g, l)
      positive == {v \in visits : g.e[v].weight > 0}
  IN Cardinality(positive) - Cardinality(visits \ positive)

----------------------------------------------------------------------------
(* Convergence controller (lines 119, 125-127, 203-211). *)

(* LoopCondition with delay <= limit: one round too many. *)
LoopConditionInclusive(d, lim, it, its) == d <= lim /\ it < its

(* LoopCondition with iters <= iterations: one counted round too many. *)
LoopConditionItersInclusive(d, lim, it, its) == d < lim /\ it <= its

(* Line 127. *)
LoopCondition(d, lim, it, its) == d < lim /\ it < its

(* NextDelay with the reset taken on every change of sparsity. *)
NextDelayResetOnChange(d, prev, sp) ==
  LET d1 == IF prev # sp THEN 0 ELSE d
  IN IF prev = sp THEN d1 + 1 ELSE d1

(* NextDelay with the reset taken when sparsity rises instead of falls. *)
NextDelayResetOnRise(d, prev, sp) ==
  LET d1 == IF prev < sp THEN 0 ELSE d
  IN IF prev = sp THEN d1 + 1 ELSE d1

(* Lines 203-206: two separate ifs, the second reading the delay the      *)
(* first may have reset.                                                    *)
NextDelay(d, prev, sp) ==
  LET d1 == IF prev > sp THEN 0 ELSE d
  IN IF prev = sp THEN d1 + 1 ELSE d1

(* Line 209. *)
WarningCondition(it, its) == it = WarnIters

----------------------------------------------------------------------------
VARIABLES graph, limit, iterations, diff_range, max_clusters,
          adj, delay, prev_sparsity, iters, topscore, bestcluster,
          pc, err, warned, clusdict, rounds, hist, sh_score

config == <<graph, limit, iterations, diff_range, max_clusters>>
vars == <<graph, limit, iterations, diff_range, max_clusters,
          adj, delay, prev_sparsity, iters, topscore, bestcluster,
          pc, err, warned, clusdict, rounds, hist, sh_score>>

(* topscore before line 157 has run. *)
NoTopscore == 0 - 1

(* The arguments of cluster_graph: every graph with every small            *)
(* configuration, and the path graph with limit = 2 or 3 and room for a    *)
(* fourth round (limit = 2: the run of the delay example of the            *)
(* documentation).                                                         *)
Inputs ==
  \/ /\ graph \in Graphs
     /\ limit \in 0..MaxLimit
     /\ iterations \in 0..MaxIterations
     /\ diff_range \in DiffRanges
     /\ max_clusters \in ClusterCounts
  \/ /\ graph = PathGraph
     /\ limit \in {2, 3}
     /\ iterations = 4
     /\ diff_range = 1
     /\ max_clusters = 2

(* The state at line 127 on entry (lines 119-126), whatever the           *)
(* arguments. rounds counts the executions of the loop body and hist lists *)
(* the sparsity values computed at lines 183-201, one per round that       *)
(* reaches them. sh_score is a local that every round rebuilds from an     *)
(* empty list (line 159) and that nothing reads after line 178: the rounds *)
(* do not record it, the selection step of SpecSelect does.                *)
Start ==
  /\ adj = ZeroAdj(graph)
  /\ delay = 0
  /\ prev_sparsity = 0
  /\ iters = 0
  /\ topscore = NoTopscore
  /\ bestcluster = Unbound
  /\ pc = "loop"
  /\ err = "none"
  /\ warned = FALSE
  /\ clusdict = <<>>
  /\ rounds = 0
  /\ hist = <<>>
  /\ sh_score = <<>>

Init == Inputs /\ Start

(* The documented scenario: the two triangles with diff_range = 1 and      *)
(* max_clusters = 2.                                                       *)
TriangleInputs ==
  /\ graph \in TriangleGraphs
  /\ limit \in {0, 1}
  /\ iterations = 1
  /\ diff_range = 1
  /\ max_clusters = 2

InitTriangles == TriangleInputs /\ Start

(* RoundBaseline with line 208 moved out of the if of line 179: the round  *)
(* is counted in iters.                                                    *)
RoundBaselineCounted ==
  /\ pc = "loop"
  /\ LoopCondition(delay, limit, iters, iterations)
  /\ 0 \in TopScoreTable[<<Len(graph.nodes), max_clusters>>]
  /\ \E seed \in NodesOf(graph) :
       adj' = Diffuse(adj, graph, seed, diff_range)
  /\ topscore' = 0
  /\ bestcluster' = BestAfterSelection(bestcluster, 0, <<>>)
  /\ rounds' = rounds + 1
  /\ iters' = iters + 1
  /\ UNCHANGED <<config, delay, prev_sparsity, pc, err, warned,
                 clusdict, hist, sh_score>>

(* A round in which the baseline has the top score (topscore = 0): lines   *)
(* 128-179, the body of the if of line 179 skipped.                        *)
RoundBaseline ==
  /\ pc = "loop"
  /\ LoopCondition(delay, limit, iters, iterations)
  /\ rounds - iters < MaxBaselineWins
  /\ 0 \in TopScoreTable[<<Len(graph.nodes), max_clusters>>]
  /\ \E seed \in NodesOf(graph) :
       adj' = Diffuse(adj, graph, seed, diff_range)
  /\ topscore' = 0
  /\ bestcluster' = BestAfterSelection(bestcluster, 0, <<>>)
  /\ rounds' = rounds + 1
  /\ UNCHANGED <<config, delay, prev_sparsity, iters, pc, err, warned,
                 clusdict, hist, sh_score>>

(* A round in which a cluster count has the top score (topscore >= 1):    *)
(* lines 128-208, or lines 128-197 when line 197 raises KeyError, which    *)
(* nothing catches.                                                        *)
RoundCluster ==
  /\ pc = "loop"
  /\ LoopCondition(delay, limit, iters, iterations)
  /\ \E k \in TopScoreTable[<<Len(graph.nodes), max_clusters>>] \ {0} :
       \E l \in Labelings(Len(graph.nodes), k) :
         /\ topscore' = k
         /\ bestcluster' = BestAfterSelection(bestcluster, k, l)
         /\ IF SparsityRaises(graph, l)
            THEN /\ pc' = "raised"
                 /\ err' = "KeyError"
                 /\ UNCHANGED <<delay, prev_sparsity, iters, hist>>
            ELSE LET sparsity == Sparsity(graph, l)
                 IN /\ delay' = NextDelay(delay, prev_sparsity, sparsity)
                    /\ prev_sparsity' = sparsity
                    /\ iters' = iters + 1
                    /\ hist' = Append(hist, sparsity)
                    /\ UNCHANGED <<pc, err>>
  /\ \E seed \in NodesOf(graph) :
       adj' = Diffuse(adj, graph, seed, diff_range)
  /\ rounds' = rounds + 1
  /\ UNCHANGED <<config, warned, clusdict, sh_score>>

(* Lines 209-216 when bestcluster holds labels. *)
Return ==
  /\ pc = "loop"
  /\ ~LoopCondition(delay, limit, iters, iterations)
  /\ bestcluster.kind = "labels"
  /\ warned' = WarningCondition(iters, iterations)
  /\ clusdict' = [n \in NodesOf(graph) |-> bestcluster.labels[adj_index(graph)[n]]]
  /\ pc' = "done"
  /\ UNCHANGED <<config, adj, delay, prev_sparsity, iters, topscore,
                 bestcluster, err, rounds, hist, sh_score>>

(* Lines 209-214 when bestcluster holds no labels: line 214 raises. *)
ReturnRaises ==
  /\ pc = "loop"
  /\ ~LoopCondition(delay, limit, iters, iterations)
  /\ bestcluster.kind # "labels"
  /\ warned' = WarningCondition(iters, iterations)
  /\ pc' = "raised"
  /\ err' = IF bestcluster.kind = "unbound" THEN "UnboundLocalError"
            ELSE "TypeError"
  /\ UNCHANGED <<config, adj, delay, prev_sparsity, iters, topscore,
                 bestcluster, clusdict, rounds, hist, sh_score>>

Next ==
  \/ RoundBaseline
  \/ RoundCluster
  \/ Return
  \/ ReturnRaises

Spec == Init /\ [][Next]_vars

(* The runs of the documented scenario. *)
SpecTriangles == InitTriangles /\ [][Next]_vars

(* A long run: limit equal to the literal of line 209, iterations above it *)
(* (or 0), max_clusters = 1, so that every counted round adopts the        *)
(* one-cluster labelling and sees sparsity 0, on a path whose weights are  *)
(* 0, so that the diffusion adds 0 to adj in every round.                  *)
ZeroPath == MkGraph(Weighted(0), Weighted(0), NoEdge, NoEdge)

LongInputs ==
  /\ graph = ZeroPath
  /\ limit = WarnIters
  /\ iterations \in {0, WarnIters + 1}
  /\ diff_range = 1
  /\ max_clusters = 1

InitLong == LongInputs /\ Start

SpecLong == InitLong /\ [][Next]_vars

----------------------------------------------------------------------------
(* The cluster selection of the first round on its own (lines 157-178).    *)

(* The graphs of either kind, with max_clusters up to 3. *)
SelectCounts == {1, 2, 3}

SelectInputs ==
  /\ graph \in Graphs \cup TriangleGraphs
  /\ limit = 1
  /\ iterations = 1
  /\ diff_range = 1
  /\ max_clusters \in SelectCounts

InitSelect == SelectInputs /\ Start

(* Lines 157-178: sh_score is filled with the score of the baseline and of *)
(* every cluster count, topscore is its argmax.                            *)
Select ==
  /\ pc = "loop"
  /\ LoopCondition(delay, limit, iters, iterations)
  /\ \E v \in ShScores(Len(graph.nodes), max_clusters) :
       /\ sh_score' = v
       /\ topscore' = ArgMax(v)
  /\ bestcluster' = None
  /\ pc' = "selected"
  /\ UNCHANGED <<config, adj, delay, prev_sparsity, iters, err, warned,
                 clusdict, rounds, hist>>

NextSelect == Select

SpecSelect == InitSelect /\ [][NextSelect]_vars

----------------------------------------------------------------------------
(* Properties of the run. *)

(* The delay counter of the documentation after the sparsity values h,     *)
(* starting from prev_sparsity = 0: reset on a fall, +1 on an equal value, *)
(* unchanged on a rise.                                                    *)
RECURSIVE DocDelay(_)
DocDelay(h) ==
  IF h = <<>> THEN 0
  ELSE LET n == Len(h)
           before == SubSeq(h, 1, n - 1)
           prev == IF n = 1 THEN 0 ELSE h[n - 1]
       IN IF h[n] < prev THEN 0
          ELSE IF h[n] = prev THEN DocDelay(before) + 1
          ELSE DocDelay(before)

(* C1: the loop executes at most `iterations` rounds, whatever the cluster *)
(* selector returns (baseline wins included).                              *)
C1_RoundsWithinIterations == rounds <= iterations

(* C2: in every round that computes a sparsity value (the first included,  *)
(* compared with prev_sparsity = 0), delay is reset to 0 when the value is *)
(* below prev_sparsity, increased by exactly 1 when it is equal, and left   *)
(* unchanged when it is above.                                             *)
C2_DelayRule ==
  [][Len(hist') = Len(hist) + 1 =>
       LET sparsity == hist'[Len(hist')]
       IN /\ sparsity < prev_sparsity => delay' = 0
          /\ sparsity = prev_sparsity => delay' = delay + 1
          /\ sparsity > prev_sparsity => delay' = delay]_vars

(* A run whose rounds showed, in this order, an equal value in the first   *)
(* round (0 against the initial 0), a rise and a fall.                     *)
C2_Witness ==
  /\ Len(hist) = 3
  /\ hist[1] = 0
  /\ hist[2] > hist[1]
  /\ hist[3] < hist[2]
  /\ delay = 0

(* C3: every executed round sets prev_sparsity to a computed sparsity and  *)
(* increments iters, so that iters equals the number of rounds executed    *)
(* (rounds ended by an exception apart).                                   *)
C3_ItersCountsRounds == pc # "raised" => iters = rounds

C5_StopsAtFirstConvergence ==
  /\ \A n \in 0..(Len(hist) - 1) :
       DocDelay(SubSeq(hist, 1, n)) < limit /\ n < iterations
  /\ topscore = 0 => DocDelay(hist) < limit /\ Len(hist) < iterations
  /\ pc = "done" => DocDelay(hist) >= limit \/ Len(hist) >= iterations

(* The delay example with limit = 2: a first value above 0 seen three      *)
(* times ends the run after the third round, a fourth being allowed.       *)
C5_Witness ==
  /\ pc = "done"
  /\ limit = 2
  /\ iterations = 4
  /\ hist = <<4, 4, 4>>
  /\ rounds = 3

(* C6: a run that returns with the budget exhausted before convergence has *)
(* emitted the warning.                                                    *)
C6_ExhaustedWarns ==
  (pc = "done" /\ iters >= iterations /\ delay < limit) => warned

(* C7: once the loop has ended, the function has returned and every node   *)
(* carries the label at its index in the held assignment.                  *)
C7_ReturnsLabelledGraph ==
  (pc # "loop" /\ err # "KeyError") =>
     /\ pc = "done"
     /\ bestcluster.kind = "labels"
     /\ \A i \in IdxOf(graph) :
          clusdict[rev_index(graph)[i]] = bestcluster.labels[i]

(* C8: no run is ended by an edge without a weight. *)
C8_MissingWeightNotFatal == err # "KeyError"

(* C9: adj is symmetric in every state. *)
C9_Symmetric ==
  \A i \in IdxOf(graph) : \A j \in IdxOf(graph) : adj[i][j] = adj[j][i]

(* Two rounds or more, a walk that came back to its seed and a pair of     *)
(* distinct nodes with a negative entry.                                   *)
C9_Witness ==
  /\ rounds >= 2
  /\ \E i \in IdxOf(graph) : adj[i][i] # 0
  /\ \E i \in IdxOf(graph) : \E j \in IdxOf(graph) : i # j /\ adj[i][j] < 0

(* C10: adj is all zero before the first round, and on a graph without     *)
(* negative weights no step lowers an entry of adj.                        *)
C10_Monotonic ==
  /\ [](rounds = 0 => adj = ZeroAdj(graph))
  /\ [][NonNegative(graph) =>
          \A i \in IdxOf(graph) : \A j \in IdxOf(graph) :
            adj'[i][j] >= adj[i][j]]_vars

(* Three rounds on a graph without negative weights, with an entry that    *)
(* more than one round has raised.                                         *)
C10_Witness ==
  /\ NonNegative(graph)
  /\ rounds >= 3
  /\ \E i \in IdxOf(graph) : \E j \in IdxOf(graph) : i # j /\ adj[i][j] >= 3

(* C11 as claimed: on the two triangles joined by a positive edge, the     *)
(* sparsity computed for the assignment that matches the triangles is 1.   *)
MatchesTriangles(l) ==
  /\ l[0] = l[1] /\ l[1] = l[2]
  /\ l[3] = l[4] /\ l[4] = l[5]
  /\ l[0] # l[3]

C11_TrianglesSparsityOne ==
  (/\ graph = TwoTriangles(Weighted(1))
   /\ bestcluster.kind = "labels"
   /\ MatchesTriangles(bestcluster.labels)) => prev_sparsity = 1

(* C11 as amended: on the two triangles, the sparsity computed for the     *)
(* assignment that matches the triangles is 2 when the connecting edge is  *)
(* positive and -2 when it is negative: the edge is counted from each of   *)
(* its endpoints.                                                          *)
C11_TrianglesSparsityTwo ==
  (/\ graph \in TriangleGraphs
   /\ bestcluster.kind = "labels"
   /\ MatchesTriangles(bestcluster.labels)) =>
     prev_sparsity = IF graph = TwoTriangles(Weighted(1)) THEN 2 ELSE 0 - 2

(* A run on the positive scenario that returned the triangle assignment. *)
C11_Witness ==
  /\ graph = TwoTriangles(Weighted(1))
  /\ pc = "done"
  /\ MatchesTriangles(bestcluster.labels)
  /\ prev_sparsity = 2

(* C12: when the adopted assignment puts all nodes in one cluster, the     *)
(* sparsity evaluation ends without an error and yields 0, whatever the    *)
(* edges and their weights.                                                *)
C12_SingleClusterZero ==
  (bestcluster.kind = "labels" /\ NLabels(bestcluster.labels) = 1) =>
     err = "none" /\ prev_sparsity = 0

(* A one-cluster assignment evaluated on a graph with a negative weight,   *)
(* after a round whose sparsity was not 0.                                 *)
C12_Witness ==
  /\ bestcluster.kind = "labels"
  /\ NLabels(bestcluster.labels) = 1
  /\ \E p \in DOMAIN graph.e : graph.e[p].weight < 0
  /\ Len(hist) = 2
  /\ hist[1] # 0

(* The value the h[i] of round i is compared with, and the last index of a *)
(* set of rounds (0 when there is none).                                   *)
PrevOf(h, i) == IF i = 1 THEN 0 ELSE h[i - 1]
LastIndex(S) == IF S = {} THEN 0 ELSE CHOOSE i \in S : \A j \in S : j <= i

(* The number of consecutive most recent rounds whose sparsity equals that *)
(* of the round before.                                                    *)
TrailingEqual(h) ==
  Len(h) - LastIndex({i \in 1..Len(h) : h[i] # PrevOf(h, i)})

(* The number of rounds whose sparsity equals that of the round before,    *)
(* counted since the last round in which sparsity fell.                    *)
EqualSinceFall(h) ==
  LET fall == LastIndex({i \in 1..Len(h) : h[i] < PrevOf(h, i)})
  IN Cardinality({i \in (fall + 1)..Len(h) : h[i] = PrevOf(h, i)})

(* C13 as claimed: delay is the number of consecutive most recent rounds   *)
(* with unchanged sparsity, and a run that converged has seen `limit`      *)
(* consecutive rounds of equal sparsity.                                   *)
C13_DelayCountsConsecutive ==
  /\ delay = TrailingEqual(hist)
  /\ (pc = "done" /\ Len(hist) < iterations) => TrailingEqual(hist) >= limit

(* C13 as amended: delay is the number of rounds with unchanged sparsity   *)
(* since the last round in which sparsity fell (a rise neither resets nor  *)
(* counts), and a run that converged has seen `limit` such rounds, not     *)
(* necessarily consecutive.                                                *)
C13_DelayCountsSinceFall ==
  /\ delay = EqualSinceFall(hist)
  /\ (pc = "done" /\ Len(hist) < iterations) => EqualSinceFall(hist) >= limit

(* A run that converged with limit = 2 on two equal rounds separated by a  *)
(* rise.                                                                   *)
C13_Witness ==
  /\ pc = "done"
  /\ limit = 2
  /\ hist = <<0, 2, 2>>
  /\ delay = 2
  /\ Len(hist) < iterations

(* The walks of length h from s (node sequences w[0] = s, ..., w[h] along  *)
(* edges, self-loops included), the product of the weights along a walk    *)
(* (1 for an edge without weight) and the sum of the products of a set of  *)
(* walks.                                                                  *)
Walks(g, s, h) ==
  {w \in [0..h -> NodesOf(g)] :
     w[0] = s /\ \A i \in 1..h : g.e[<<w[i - 1], w[i]>>].edge}

RECURSIVE WalkProduct(_, _, _)
WalkProduct(g, w, i) ==
  IF i = 0 THEN 1
  ELSE LET d == g.e[<<w[i - 1], w[i]>>]
       IN WalkProduct(g, w, i - 1) * (IF d.attr THEN d.weight ELSE 1)

RECURSIVE SumProducts(_, _, _)
SumProducts(g, W, h) ==
  IF W = {} THEN 0
  ELSE LET w == CHOOSE x \in W : TRUE
       IN WalkProduct(g, w, h) + SumProducts(g, W \ {w}, h)

RECURSIVE WalkSum(_, _, _, _)
WalkSum(g, s, v, k) ==
  IF k = 0 THEN 0
  ELSE SumProducts(g, {w \in Walks(g, s, k) : w[k] = v}, k)
       + WalkSum(g, s, v, k - 1)

(* The frontier after hop h has, for every end node and magnitude, as many *)
(* entries as there are walks of length h from s with that end and that    *)
(* product.                                                                *)
FrontierIsWalks(g, s, h) ==
  LET f == UpperDiff(g, s, h)
      W == Walks(g, s, h)
  IN /\ Len(f) = Cardinality(W)
     /\ \A i \in 1..Len(f) :
          Cardinality({j \in 1..Len(f) : f[j] = f[i]}) =
          Cardinality({w \in W : /\ w[h] = f[i].node
                                 /\ WalkProduct(g, w, h) = f[i].mag})

(* What one round with the seed at index s and diffusion range k is to     *)
(* add to adj[s][t] on the graph g: the walk sum, twice on the diagonal.   *)
WalkAdditions ==
  UNION {{<<g, p[1], p[2], p[3],
            (IF p[1] = p[2] THEN 2 ELSE 1)
              * WalkSum(g, g.nodes[p[1] + 1], g.nodes[p[2] + 1], p[3])>> :
            p \in IdxOf(g) \X IdxOf(g) \X DiffRanges} :
         g \in Graphs}

(* C14: every round adds to adj[s][v], for its seed s and every node v # s, *)
(* the sum over the walks of length 1..diff_range from s to v of the       *)
(* product of the weights, and twice that sum to adj[s][s]; the frontier   *)
(* after hop h holds one entry per walk of length h from s (the graph does *)
(* not change during a run: the frontiers are compared where it starts).   *)
C14_WalkSums ==
  /\ [](rounds = 0 =>
          \A seed \in NodesOf(graph) : \A h \in 1..diff_range :
            FrontierIsWalks(graph, seed, h))
  /\ [][rounds' = rounds + 1 =>
          \E s \in IdxOf(graph) :
            \A t \in IdxOf(graph) :
              <<graph, s, t, diff_range, adj'[s][t] - adj[s][t]>>
                \in WalkAdditions]_vars

(* One round from seed c on the path a-b-c (weights 1 and 2) with          *)
(* diff_range = 2: the walk c-b-a adds 2 to adj[c][a], the walk c-b-c adds *)
(* twice 4 to adj[c][c].                                                   *)
C14_Witness ==
  /\ graph = PathGraph
  /\ diff_range = 2
  /\ rounds = 1
  /\ adj[2][0] = 2
  /\ adj[2][1] = 2
  /\ adj[2][2] = 8

(* C15: a round changes adj only in the row and the column of one node    *)
(* (its seed), a step that is not a round leaves adj alone, and a round    *)
(* that ends after diffusion and selection (the baseline wins) leaves      *)
(* delay, iters and prev_sparsity as they were.                            *)
C15_DiffusionFrame ==
  /\ [][rounds' = rounds + 1 =>
          \E s \in IdxOf(graph) :
            \A i \in IdxOf(graph) \ {s} : \A j \in IdxOf(graph) \ {s} :
              adj'[i][j] = adj[i][j]]_vars
  /\ [][rounds' = rounds => adj' = adj]_vars
  /\ [][(rounds' = rounds + 1 /\ topscore' = 0) =>
          UNCHANGED <<delay, iters, prev_sparsity>>]_vars

(* One round from seed a on the path a-b-c with diff_range = 2: row a has  *)
(* changed up to node c, the entries of the edge b-c outside row and       *)
(* column a are still 0.                                                   *)
C15_Witness ==
  /\ graph = PathGraph
  /\ diff_range = 2
  /\ rounds = 1
  /\ adj[0][2] = 2
  /\ adj[2][0] = 2
  /\ adj[1][2] = 0
  /\ adj[1][1] = 0
  /\ adj[2][2] = 0

(* C16: topscore is the lowest index that holds the maximum of sh_score.   *)
(* If the baseline score (index 0) is >= every candidate score, topscore   *)
(* is 0; a cluster count c >= 1 is selected only if its score is strictly  *)
(* greater than the baseline score and than the score of every lower       *)
(* count. The score of one cluster, on which the scorer fails, is 0.       *)
C16_LowestIndexOfMaximum ==
  pc = "selected" =>
    /\ DOMAIN sh_score = 0..max_clusters
    /\ topscore \in DOMAIN sh_score
    /\ \A j \in DOMAIN sh_score : sh_score[j] <= sh_score[topscore]
    /\ \A j \in DOMAIN sh_score :
         sh_score[j] = sh_score[topscore] => topscore <= j
    /\ (\A c \in 1..max_clusters : sh_score[0] >= sh_score[c]) => topscore = 0
    /\ topscore >= 1 =>
         \A j \in 0..(topscore - 1) : sh_score[topscore] > sh_score[j]
    /\ sh_score[1] = 0

(* A selection in which two cluster counts share the maximum, above the    *)
(* baseline: the lower count is taken.                                     *)
C16_Witness ==
  /\ pc = "selected"
  /\ max_clusters = 3
  /\ sh_score[0] = 0
  /\ sh_score[2] = 1
  /\ sh_score[3] = 1
  /\ topscore = 2

(* C17: after a round that the baseline wins the loop condition still      *)
(* holds, so the loop never exits directly after such a round; when the    *)
(* loop condition is false after at least one round, the last round had    *)
(* topscore >= 1 and bestcluster holds its label vector, one label per     *)
(* node; the steps after the loop do not change bestcluster.               *)
C17_ExitOnlyAfterAdoption ==
  /\ [](topscore = 0 => pc = "loop" /\ delay < limit /\ iters < iterations)
  /\ []((rounds >= 1 /\ err # "KeyError"
           /\ (pc # "loop" \/ ~(delay < limit /\ iters < iterations))) =>
          /\ pc \in {"loop", "done"}
          /\ topscore >= 1
          /\ bestcluster.kind = "labels"
          /\ DOMAIN bestcluster.labels = IdxOf(graph)
          /\ Len(hist) >= 1
          /\ prev_sparsity = hist[Len(hist)])
  /\ [][rounds' = rounds =>
          bestcluster' = bestcluster /\ topscore' = topscore]_vars

(* A run that returned after a round the baseline had won and a round that *)
(* adopted a clustering.                                                   *)
C17_Witness ==
  /\ pc = "done"
  /\ rounds = 2
  /\ iters = 1
  /\ topscore >= 1
  /\ bestcluster.kind = "labels"

(* C18 as claimed: 0 <= delay <= iters <= iterations and delay <= limit in *)
(* every state, and no step changes delay or iters by more than 1.         *)
C18_CountersStepByOne ==
  /\ [](0 <= delay /\ delay <= iters /\ iters <= iterations /\ delay <= limit)
  /\ [][/\ delay' - delay \in {0 - 1, 0, 1}
        /\ iters' - iters \in {0 - 1, 0, 1}]_vars

(* C18 as amended: 0 <= delay <= iters <= iterations and delay <= limit in *)
(* every state; a step leaves iters or adds 1 to it, and leaves delay,     *)
(* adds 1 to it or resets it to 0 from whatever value it had.              *)
C18_CountersBounded ==
  /\ [](0 <= delay /\ delay <= iters /\ iters <= iterations /\ delay <= limit)
  /\ [][/\ iters' \in {iters, iters + 1}
        /\ delay' \in {delay, delay + 1, 0}
        /\ delay' # delay => iters' = iters + 1]_vars

(* A reset of delay from 2 to 0: three equal values, then a fall. *)
C18_Witness ==
  /\ limit = 3
  /\ hist = <<2, 2, 2, 0>>
  /\ delay = 0
  /\ iters = 4

(* The cross-cluster edges of g under the labels l, each taken once as the *)
(* set of its two distinct endpoints, and the weight of such an edge.      *)
CrossEdges(g, l) ==
  {e \in SUBSET NodesOf(g) :
     \E u \in e : \E v \in e :
       /\ e = {u, v}
       /\ u # v
       /\ g.e[<<u, v>>].edge
       /\ l[adj_index(g)[u]] # l[adj_index(g)[v]]}

EdgeWeight(g, e) ==
  LET u == CHOOSE x \in e : TRUE
      v == CHOOSE x \in e : x # u
  IN g.e[<<u, v>>].weight

(* C19: a sparsity computed without error for the adopted assignment is    *)
(* twice the number of cross-cluster edges with weight > 0 minus twice the *)
(* number of cross-cluster edges with weight <= 0; it is even, and         *)
(* self-loops, which are no cross-cluster edges, do not count.             *)
C19_TwicePerCutEdge ==
  (bestcluster.kind = "labels" /\ err = "none") =>
    LET cross == CrossEdges(graph, bestcluster.labels)
        positive == {e \in cross : EdgeWeight(graph, e) > 0}
    IN /\ prev_sparsity =
            2 * (Cardinality(positive) - Cardinality(cross \ positive))
       /\ prev_sparsity % 2 = 0

(* On the graph with a self-loop at a, an edge a-b of weight 1 and an edge *)
(* b-c of weight -1, the assignment that separates b from a and c: one     *)
(* positive and one negative cross-cluster edge, sparsity 0 after a round  *)
(* whose sparsity was not 0.                                               *)
C19_Witness ==
  /\ graph.e[<<"a", "a">>].edge
  /\ bestcluster.kind = "labels"
  /\ bestcluster.labels[0] # bestcluster.labels[1]
  /\ bestcluster.labels[1] # bestcluster.labels[2]
  /\ err = "none"
  /\ Len(hist) = 2
  /\ hist[1] # 0
  /\ prev_sparsity = 0

(* C20: a run that returns converged (delay >= limit) with iters below     *)
(* iterations has not emitted the warning.                                 *)
C20_NoWarningOnConvergence ==
  (pc = "done" /\ delay >= limit /\ iters < iterations) => ~warned

====
